---- MODULE Spec2Model ----
(***************************************************************************)
(* Model of src/src/App.tsx: the KanbanTodoList component.  The state is   *)
(* the component's React state (columns, newTask, newComment,              *)
(* selectedTask, loading), the two remote tables (tasks, comments) and the *)
(* async handlers whose remote call is outstanding.  Every handler closes  *)
(* over the `columns` value of the render in which it was invoked; after   *)
(* its await it computes newColumns from that captured value and calls     *)
(* setColumns.                                                             *)
(***************************************************************************)
EXTENDS Integers, Sequences, FiniteSets, TLC

\* ------------------------------------------------------------------ bounds
MaxTasks    == 2   \* task ids the remote store ever assigns (initial rows + inserts)
MaxComments == 2   \* comment ids the remote store ever assigns
MaxPending  == 2   \* handlers whose remote call is outstanding at once
MaxOps      == 2   \* handler invocations that issue a remote call
MaxFetched  == 2   \* rows of each table when fetchTasks is checked on any store

\* ------------------------------------------------------------------ types
Status   == {"inicio", "enmarcha", "acabado"}
Priority == {"normal", "urgente", "inmediata"}

\* Text is a sequence of characters; SP is the only whitespace character used.
SP == " "
Whitespace == {SP}
Drafts == { <<>>, <<SP>>, <<SP, "a", SP>> }

NoTask    == [id |-> 0, content |-> <<>>, status |-> "none", priority |-> "none", comments |-> <<>>]
NoRow     == [id |-> 0, content |-> <<>>, status |-> "none", priority |-> "none"]
NoComment == [id |-> 0, content |-> <<>>, timestamp |-> 0, task_id |-> 0]

initialColumns ==
  << [id |-> "inicio",   tasks |-> <<>>],
     [id |-> "enmarcha", tasks |-> <<>>],
     [id |-> "acabado",  tasks |-> <<>>] >>

\* ------------------------------------------------------------------ helpers
RECURSIVE TrimStart(_)
TrimStart(s) == IF s # <<>> /\ Head(s) \in Whitespace THEN TrimStart(Tail(s)) ELSE s

RECURSIVE TrimEnd(_)
TrimEnd(s) ==
  IF s # <<>> /\ s[Len(s)] \in Whitespace THEN TrimEnd(SubSeq(s, 1, Len(s) - 1)) ELSE s

Trim(s) == TrimEnd(TrimStart(s))

\* columns.find(col => col.id === id); Found tells whether find returned a column
Found(cols, id) == \E k \in 1..Len(cols) : cols[k].id = id
Find(cols, id)  == cols[CHOOSE k \in 1..Len(cols) : cols[k].id = id]

\* a splice on a copy that is then dropped: nothing is removed
SpliceRemove_Nothing(s, i) == s

\* a.splice(i, 1) and a.splice(i, 0, x), i counted from 0
SpliceRemove(s, i) ==
  IF i < Len(s) THEN SubSeq(s, 1, i) \o SubSeq(s, i + 2, Len(s)) ELSE s

\* push(x) in place of splice(i, 0, x)
SpliceInsert_Append(s, i, x) == Append(s, x)

SpliceInsert(s, i, x) ==
  LET k == IF i > Len(s) THEN Len(s) ELSE i
  IN  SubSeq(s, 1, k) \o <<x>> \o SubSeq(s, k + 1, Len(s))

\* { ...row, comments: cs }
WithComments(row, cs) ==
  [id |-> row.id, content |-> row.content, status |-> row.status,
   priority |-> row.priority, comments |-> cs]

\* ------------------------------------------------------------------ state
VARIABLES
  columns,       \* useState(initialColumns)
  newTask,       \* useState('')
  newComment,    \* useState('')
  selectedTask,  \* useState(null); NoTask stands for null
  loading,       \* useState(true)
  loadPc,        \* position of fetchTasks: "tasks", "comments", "done"
  fetched,       \* rows returned by the first select of fetchTasks
  pending,       \* handler invocations suspended at their await
  nOps,          \* handler invocations so far that issued a remote call
  dbTasks,       \* remote table tasks, in select order
  dbComments,    \* remote table comments, in select order
  nextTaskId,    \* next id the remote store assigns to a task
  last           \* the step an operation took last: [phase, op, serial]

vars == <<columns, newTask, newComment, selectedTask, loading, loadPc, fetched,
          pending, nOps, dbTasks, dbComments, nextTaskId, last>>

local == <<columns, newTask, newComment, selectedTask>>
remote == <<dbTasks, dbComments, nextTaskId>>

\* an invocation of a handler: what it captured and where it stands
NoOp ==
  [id |-> 0, kind |-> "none", stage |-> "none", cols |-> initialColumns,
   src |-> "none", srcIdx |-> 0, dst |-> "none", dstIdx |-> 0,
   taskId |-> 0, priority |-> "none", content |-> <<>>, ts |-> 0,
   task |-> NoTask, dataTask |-> NoRow, dataComment |-> NoComment]

\* the record of a step.  serial tells that Load has succeeded and that no
\* handler has issued its call while another handler's call was outstanding
Step(phase, op) ==
  [phase |-> phase, op |-> op,
   serial |-> IF phase = "loadOk" THEN TRUE
              ELSE IF phase = "start" THEN last.serial /\ pending = {}
              ELSE last.serial]

\* all tasks of a snapshot, column after column
RECURSIVE AllTasks(_)
AllTasks(cols) == IF cols = <<>> THEN <<>> ELSE Head(cols).tasks \o AllTasks(Tail(cols))

Ids(cols) == { AllTasks(cols)[k].id : k \in 1..Len(AllTasks(cols)) }

\* ------------------------------------------------------------------ Init
Row(id, status, priority) == [id |-> id, content |-> <<"a">>, status |-> status, priority |-> priority]

\* contents of the remote store when the component mounts: <<tasks, comments>>
InitStores ==
  { << <<>>, <<>> >>,
    << <<Row(1, "inicio", "normal")>>, <<>> >>,
    << <<Row(1, "inicio", "normal"), Row(2, "acabado", "urgente")>>,
       <<[id |-> 1, content |-> <<"c">>, timestamp |-> 0, task_id |-> 2]>> >> }

Init ==
  /\ columns = initialColumns
  /\ newTask = <<>>
  /\ newComment = <<>>
  /\ selectedTask = NoTask
  /\ loading = TRUE
  /\ loadPc = "tasks"
  /\ fetched = <<>>
  /\ pending = {}
  /\ nOps = 0
  /\ \E store \in InitStores :
       /\ dbTasks = store[1]
       /\ dbComments = store[2]
       /\ nextTaskId = Len(store[1]) + 1
  /\ last = [phase |-> "init", op |-> NoOp, serial |-> FALSE]

\* ------------------------------------------------------------------ fetchTasks
\* every task given every fetched comment
tasksWithComments_NoFilter(tasks, comments) ==
  [k \in 1..Len(tasks) |-> WithComments(tasks[k], comments)]

\* tasksWithComments and newColumns of fetchTasks
tasksWithComments(tasks, comments) ==
  LET Attach(task) ==
        LET IsOf(comment) == comment.task_id = task.id
        IN  WithComments(task, SelectSeq(comments, IsOf))
  IN  [k \in 1..Len(tasks) |-> Attach(tasks[k])]

LoadColumns(tasks, comments) ==
  LET twc == tasksWithComments(tasks, comments)
      Col(col) ==
        LET InCol(task) == task.status = col.id
        IN  [id |-> col.id, tasks |-> SelectSeq(twc, InCol)]
  IN  [k \in 1..Len(initialColumns) |-> Col(initialColumns[k])]

FetchTasksOk ==
  /\ loadPc = "tasks"
  /\ fetched' = dbTasks
  /\ loadPc' = "comments"
  /\ last' = Step("loadTasks", NoOp)
  /\ UNCHANGED <<local, loading, pending, nOps, remote>>

FetchTasksErr ==
  /\ loadPc = "tasks"
  /\ loading' = FALSE
  /\ loadPc' = "done"
  /\ last' = Step("loadFail", [NoOp EXCEPT !.kind = "tasks"])
  /\ UNCHANGED <<local, fetched, pending, nOps, remote>>

FetchCommentsOk ==
  /\ loadPc = "comments"
  /\ columns' = LoadColumns(fetched, dbComments)
  /\ loading' = FALSE
  /\ loadPc' = "done"
  /\ fetched' = <<>>
  /\ last' = Step("loadOk", NoOp)
  /\ UNCHANGED <<newTask, newComment, selectedTask, pending, nOps, remote>>

\* the tasks already fetched shown without their comments
FetchCommentsErr_ShowsTasks ==
  /\ loadPc = "comments"
  /\ columns' = LoadColumns(fetched, <<>>)
  /\ loading' = FALSE
  /\ loadPc' = "done"
  /\ fetched' = <<>>
  /\ last' = Step("loadFail", [NoOp EXCEPT !.kind = "comments"])
  /\ UNCHANGED <<newTask, newComment, selectedTask, pending, nOps, remote>>

FetchCommentsErr ==
  /\ loadPc = "comments"
  /\ loading' = FALSE
  /\ loadPc' = "done"
  /\ fetched' = <<>>
  /\ last' = Step("loadFail", [NoOp EXCEPT !.kind = "comments"])
  /\ UNCHANGED <<local, pending, nOps, remote>>

\* ------------------------------------------------------------------ presentation
\* the board rendered without the loading guard
Rendered_Always == TRUE

\* the board is rendered only when loading is false (early return of the component)
Rendered == loading = FALSE

\* task cards on screen: (column position, index in column counted from 0)
Cards == UNION { { <<c, i>> : i \in 0..(Len(columns[c].tasks) - 1) } : c \in 1..Len(columns) }
CardTask(card) == columns[card[1]].tasks[card[2] + 1]

\* a comment dialog is open for a card: the card's button set selectedTask to its
\* task, and addComment may have reset it to null since
DialogOpen ==
  \E card \in Cards : selectedTask = NoTask \/ selectedTask.id = CardTask(card).id

CanIssue == Rendered /\ nOps < MaxOps /\ Cardinality(pending) < MaxPending

NewOp(kind) == [NoOp EXCEPT !.id = nOps + 1, !.kind = kind, !.stage = "sent", !.cols = columns]

\* onChange of the new-task input
SetNewTask(text) ==
  /\ Rendered
  /\ newTask' = text
  /\ UNCHANGED <<last, columns, newComment, selectedTask, loading, loadPc, fetched, pending, nOps, remote>>

\* onChange of the comment textarea
SetNewComment(text) ==
  /\ Rendered /\ DialogOpen
  /\ newComment' = text
  /\ UNCHANGED <<last, columns, newTask, selectedTask, loading, loadPc, fetched, pending, nOps, remote>>

\* onClick of a card's comment button
SetSelectedTask(card) ==
  /\ Rendered
  /\ selectedTask' = CardTask(card)
  /\ UNCHANGED <<last, columns, newTask, newComment, loading, loadPc, fetched, pending, nOps, remote>>

\* ------------------------------------------------------------------ onDragEnd
NoDest == [droppableId |-> "none", index |-> 0]

\* drops the drag-and-drop library reports for a card dragged from `source`
Destinations(source) ==
  {NoDest} \cup
  UNION { { [droppableId |-> columns[c].id, index |-> j] : j \in 0..Len(columns[c].tasks) } :
          c \in 1..Len(columns) }

ValidDrop(source, destination) ==
  \/ destination = NoDest
  \/ \E c \in 1..Len(columns) :
       /\ columns[c].id = destination.droppableId
       /\ IF columns[c].id = source.droppableId
            THEN destination.index < Len(columns[c].tasks)
            ELSE destination.index <= Len(columns[c].tasks)

\* lines 106-111: the two early returns
OnDragEndReturn(source, destination) ==
  /\ Rendered
  /\ ValidDrop(source, destination)
  /\ \/ destination = NoDest
     \/ ~Found(columns, source.droppableId)
     \/ ~Found(columns, destination.droppableId)
  /\ last' = Step("noop", [NoOp EXCEPT !.kind = "move"])
  /\ UNCHANGED <<local, loading, loadPc, fetched, pending, nOps, remote>>

\* a drop that forgets to overwrite the status
UpdatedTask_SameStatus(task, destColumn) == task

\* the dropped task rebuilt from the fields of its row, its comments left out
UpdatedTask_NoComments(task, destColumn) ==
  [task EXCEPT !.status = destColumn.id, !.comments = <<>>]

\* line 114: { ...task, status: destColumn.id }
UpdatedTask(task, destColumn) == [task EXCEPT !.status = destColumn.id]

\* lines 113-120: capture the task and issue the update
OnDragEndStart(source, destination) ==
  /\ CanIssue
  /\ ValidDrop(source, destination)
  /\ destination # NoDest
  /\ Found(columns, source.droppableId) /\ Found(columns, destination.droppableId)
  /\ LET sourceColumn == Find(columns, source.droppableId)
         destColumn   == Find(columns, destination.droppableId)
         task         == sourceColumn.tasks[source.index + 1]
         updatedTask  == UpdatedTask(task, destColumn)
         op == [NewOp("move") EXCEPT !.src = source.droppableId, !.srcIdx = source.index,
                                     !.dst = destination.droppableId, !.dstIdx = destination.index,
                                     !.taskId = task.id, !.task = updatedTask]
     IN  /\ pending' = pending \cup {op}
         /\ last' = Step("start", op)
  /\ nOps' = nOps + 1
  /\ UNCHANGED <<local, loading, loadPc, fetched, remote>>

\* lines 124-136: newColumns of onDragEnd
MoveColumns(cols, op) ==
  LET Col(col) ==
        IF col.id = op.src
          THEN [col EXCEPT !.tasks = SpliceRemove(col.tasks, op.srcIdx)]
        ELSE IF col.id = op.dst
          THEN [col EXCEPT !.tasks = SpliceInsert(col.tasks, op.dstIdx, op.task)]
        ELSE col
  IN  [k \in 1..Len(cols) |-> Col(cols[k])]

\* lines 122-138: the update succeeded
OnDragEndOk(op) ==
  /\ op \in pending /\ op.kind = "move" /\ op.stage = "ok"
  /\ columns' = MoveColumns(op.cols, op)
  /\ pending' = pending \ {op}
  /\ last' = Step("ok", op)
  /\ UNCHANGED <<newTask, newComment, selectedTask, loading, loadPc, fetched, nOps, remote>>

Sources == { [droppableId |-> columns[card[1]].id, index |-> card[2]] : card \in Cards }

\* ------------------------------------------------------------------ addTask
\* line 145: the early return
AddTaskReturn ==
  /\ Rendered
  /\ Trim(newTask) = <<>>
  /\ last' = Step("noop", [NoOp EXCEPT !.kind = "create"])
  /\ UNCHANGED <<local, loading, loadPc, fetched, pending, nOps, remote>>

\* tasks inserted or about to be: the remote store assigns at most MaxTasks ids
InsertsOutstanding == Cardinality({ op \in pending : op.kind = "create" /\ op.stage = "sent" })

\* the guard written without trim()
AddTaskStart_NoTrim ==
  /\ CanIssue
  /\ newTask # <<>>
  /\ nextTaskId + InsertsOutstanding <= MaxTasks
  /\ LET op == [NewOp("create") EXCEPT !.content = Trim(newTask), !.dst = "inicio",
                                       !.priority = "normal"]
     IN  /\ pending' = pending \cup {op}
         /\ last' = Step("start", op)
  /\ nOps' = nOps + 1
  /\ UNCHANGED <<local, loading, loadPc, fetched, remote>>

\* lines 147-157: build the row and issue the insert
AddTaskStart ==
  /\ CanIssue
  /\ Trim(newTask) # <<>>
  /\ nextTaskId + InsertsOutstanding <= MaxTasks
  /\ LET op == [NewOp("create") EXCEPT !.content = Trim(newTask), !.dst = "inicio",
                                       !.priority = "normal"]
     IN  /\ pending' = pending \cup {op}
         /\ last' = Step("start", op)
  /\ nOps' = nOps + 1
  /\ UNCHANGED <<local, loading, loadPc, fetched, remote>>

\* the new task put in front of the list
AddTaskColumns_Prepend(cols, data) ==
  LET created == WithComments(data, <<>>)
      Col(col) == IF col.id = "inicio" THEN [col EXCEPT !.tasks = <<created>> \o col.tasks] ELSE col
  IN  [k \in 1..Len(cols) |-> Col(cols[k])]

\* lines 161-164: newColumns of addTask
AddTaskColumns(cols, data) ==
  LET created == WithComments(data, <<>>)
      Col(col) == IF col.id = "inicio" THEN [col EXCEPT !.tasks = Append(col.tasks, created)] ELSE col
  IN  [k \in 1..Len(cols) |-> Col(cols[k])]

\* lines 159-167: the insert succeeded
AddTaskOk(op) ==
  /\ op \in pending /\ op.kind = "create" /\ op.stage = "ok"
  /\ columns' = AddTaskColumns(op.cols, op.dataTask)
  /\ newTask' = <<>>
  /\ pending' = pending \ {op}
  /\ last' = Step("ok", op)
  /\ UNCHANGED <<newComment, selectedTask, loading, loadPc, fetched, nOps, remote>>

\* ------------------------------------------------------------------ changeTaskPriority
\* lines 173-178: onValueChange of a card's priority select
ChangeTaskPriorityStart(card, newPriority) ==
  /\ CanIssue
  /\ LET op == [NewOp("priority") EXCEPT !.taskId = CardTask(card).id, !.priority = newPriority]
     IN  /\ pending' = pending \cup {op}
         /\ last' = Step("start", op)
  /\ nOps' = nOps + 1
  /\ UNCHANGED <<local, loading, loadPc, fetched, remote>>

\* the task rebuilt from its row fields, its comments dropped
PriorityColumns_DropComments(cols, taskId, newPriority) ==
  LET T(task) == IF task.id = taskId
                   THEN [task EXCEPT !.priority = newPriority, !.comments = <<>>]
                   ELSE task
      Col(col) == [col EXCEPT !.tasks = [k \in 1..Len(col.tasks) |-> T(col.tasks[k])]]
  IN  [k \in 1..Len(cols) |-> Col(cols[k])]

\* the priority set on every task
PriorityColumns_AllTasks(cols, taskId, newPriority) ==
  LET T(task) == [task EXCEPT !.priority = newPriority]
      Col(col) == [col EXCEPT !.tasks = [k \in 1..Len(col.tasks) |-> T(col.tasks[k])]]
  IN  [k \in 1..Len(cols) |-> Col(cols[k])]

\* lines 182-187: newColumns of changeTaskPriority
PriorityColumns(cols, taskId, newPriority) ==
  LET T(task) == IF task.id = taskId THEN [task EXCEPT !.priority = newPriority] ELSE task
      Col(col) == [col EXCEPT !.tasks = [k \in 1..Len(col.tasks) |-> T(col.tasks[k])]]
  IN  [k \in 1..Len(cols) |-> Col(cols[k])]

\* the patch applied to the snapshot current at completion: setColumns(prev => ...)
ChangeTaskPriorityOk_Functional(op) ==
  /\ op \in pending /\ op.kind = "priority" /\ op.stage = "ok"
  /\ columns' = PriorityColumns(columns, op.taskId, op.priority)
  /\ pending' = pending \ {op}
  /\ last' = Step("ok", op)
  /\ UNCHANGED <<newTask, newComment, selectedTask, loading, loadPc, fetched, nOps, remote>>

\* lines 180-189: the update succeeded
ChangeTaskPriorityOk(op) ==
  /\ op \in pending /\ op.kind = "priority" /\ op.stage = "ok"
  /\ columns' = PriorityColumns(op.cols, op.taskId, op.priority)
  /\ pending' = pending \ {op}
  /\ last' = Step("ok", op)
  /\ UNCHANGED <<newTask, newComment, selectedTask, loading, loadPc, fetched, nOps, remote>>

\* ------------------------------------------------------------------ deleteTask
\* the local list patched before the store has answered
DeleteTaskStart_Optimistic(card) ==
  /\ CanIssue
  /\ CardTask(card).status = "acabado"
  /\ LET op == [NewOp("delete") EXCEPT !.taskId = CardTask(card).id]
         Keep(task) == task.id # CardTask(card).id
         Col(col) == [col EXCEPT !.tasks = SelectSeq(col.tasks, Keep)]
     IN  /\ pending' = pending \cup {op}
         /\ last' = Step("start", op)
         /\ columns' = [k \in 1..Len(columns) |-> Col(columns[k])]
  /\ nOps' = nOps + 1
  /\ UNCHANGED <<newTask, newComment, selectedTask, loading, loadPc, fetched, remote>>

\* the delete button rendered on every card
DeleteTaskStart_AnyCard(card) ==
  /\ CanIssue
  /\ LET op == [NewOp("delete") EXCEPT !.taskId = CardTask(card).id]
     IN  /\ pending' = pending \cup {op}
         /\ last' = Step("start", op)
  /\ nOps' = nOps + 1
  /\ UNCHANGED <<local, loading, loadPc, fetched, remote>>

\* lines 353-358 and 195-200: the button exists only on a card whose status is 'acabado'
DeleteTaskStart(card) ==
  /\ CanIssue
  /\ CardTask(card).status = "acabado"
  /\ LET op == [NewOp("delete") EXCEPT !.taskId = CardTask(card).id]
     IN  /\ pending' = pending \cup {op}
         /\ last' = Step("start", op)
  /\ nOps' = nOps + 1
  /\ UNCHANGED <<local, loading, loadPc, fetched, remote>>

\* the filter applied to the column instead of to its tasks
DeleteColumns_WholeColumn(cols, taskId) ==
  LET Has(col) == \E k \in 1..Len(col.tasks) : col.tasks[k].id = taskId
      Col(col) == IF Has(col) THEN [col EXCEPT !.tasks = <<>>] ELSE col
  IN  [k \in 1..Len(cols) |-> Col(cols[k])]

\* lines 204-207: newColumns of deleteTask
DeleteColumns(cols, taskId) ==
  LET Keep(task) == task.id # taskId
      Col(col) == [col EXCEPT !.tasks = SelectSeq(col.tasks, Keep)]
  IN  [k \in 1..Len(cols) |-> Col(cols[k])]

\* lines 202-208: the delete succeeded
DeleteTaskOk(op) ==
  /\ op \in pending /\ op.kind = "delete" /\ op.stage = "ok"
  /\ columns' = DeleteColumns(op.cols, op.taskId)
  /\ pending' = pending \ {op}
  /\ last' = Step("ok", op)
  /\ UNCHANGED <<newTask, newComment, selectedTask, loading, loadPc, fetched, nOps, remote>>

\* ------------------------------------------------------------------ addComment
\* line 215: the early return
AddCommentReturn ==
  /\ Rendered /\ DialogOpen
  /\ selectedTask = NoTask \/ Trim(newComment) = <<>>
  /\ last' = Step("noop", [NoOp EXCEPT !.kind = "comment"])
  /\ UNCHANGED <<local, loading, loadPc, fetched, pending, nOps, remote>>

CommentsOutstanding == Cardinality({ op \in pending : op.kind = "comment" /\ op.stage = "sent" })

\* lines 217-227: build the comment and issue the insert; Date.now() is read as
\* the number of invocations so far, which grows as the clock does
AddCommentStart ==
  /\ CanIssue /\ DialogOpen
  /\ selectedTask # NoTask /\ Trim(newComment) # <<>>
  /\ Len(dbComments) + CommentsOutstanding < MaxComments
  /\ LET op == [NewOp("comment") EXCEPT !.content = Trim(newComment), !.taskId = selectedTask.id,
                                        !.task = selectedTask, !.ts = nOps + 1]
     IN  /\ pending' = pending \cup {op}
         /\ last' = Step("start", op)
  /\ nOps' = nOps + 1
  /\ UNCHANGED <<local, loading, loadPc, fetched, remote>>

\* the comment appended to every task
CommentColumns_AllTasks(cols, taskId, data) ==
  LET T(task) == [task EXCEPT !.comments = Append(task.comments, data)]
      Col(col) == [col EXCEPT !.tasks = [k \in 1..Len(col.tasks) |-> T(col.tasks[k])]]
  IN  [k \in 1..Len(cols) |-> Col(cols[k])]

\* lines 231-238: newColumns of addComment
CommentColumns(cols, taskId, data) ==
  LET T(task) == IF task.id = taskId THEN [task EXCEPT !.comments = Append(task.comments, data)] ELSE task
      Col(col) == [col EXCEPT !.tasks = [k \in 1..Len(col.tasks) |-> T(col.tasks[k])]]
  IN  [k \in 1..Len(cols) |-> Col(cols[k])]

\* lines 229-242: the insert succeeded
AddCommentOk(op) ==
  /\ op \in pending /\ op.kind = "comment" /\ op.stage = "ok"
  /\ columns' = CommentColumns(op.cols, op.task.id, op.dataComment)
  /\ newComment' = <<>>
  /\ selectedTask' = NoTask
  /\ pending' = pending \ {op}
  /\ last' = Step("ok", op)
  /\ UNCHANGED <<newTask, loading, loadPc, fetched, nOps, remote>>

\* ------------------------------------------------------------------ catch blocks
\* the resets of the drafts moved into a finally block
Catch_Finally(op) ==
  /\ op \in pending /\ op.stage = "sent"
  /\ pending' = pending \ {op}
  /\ newTask' = (IF op.kind = "create" THEN <<>> ELSE newTask)
  /\ newComment' = (IF op.kind = "comment" THEN <<>> ELSE newComment)
  /\ selectedTask' = (IF op.kind = "comment" THEN NoTask ELSE selectedTask)
  /\ last' = Step("fail", op)
  /\ UNCHANGED <<columns, loading, loadPc, fetched, nOps, remote>>

\* lines 139-141, 168-170, 190-192, 209-211, 243-245: the store answers { error }
\* and has changed nothing; the handler throws it and its catch block logs it
Catch(op) ==
  /\ op \in pending /\ op.stage = "sent"
  /\ pending' = pending \ {op}
  /\ last' = Step("fail", op)
  /\ UNCHANGED <<local, loading, loadPc, fetched, nOps, remote>>

\* ------------------------------------------------------------------ remote store
\* .update(partial).eq('id', id)
UpdateStatus(rows, id, status) ==
  LET U(row) == IF row.id = id THEN [row EXCEPT !.status = status] ELSE row
  IN  [k \in 1..Len(rows) |-> U(rows[k])]

UpdatePriority(rows, id, priority) ==
  LET U(row) == IF row.id = id THEN [row EXCEPT !.priority = priority] ELSE row
  IN  [k \in 1..Len(rows) |-> U(rows[k])]

\* .delete().eq('id', id)
DeleteRow(rows, id) ==
  LET Keep(row) == row.id # id
  IN  SelectSeq(rows, Keep)

\* the store executes the request of op and answers { data, error: null }
RemoteOk(op) ==
  /\ op \in pending /\ op.stage = "sent"
  /\ \/ /\ op.kind = "move"
        /\ dbTasks' = UpdateStatus(dbTasks, op.taskId, op.dst)
        /\ pending' = (pending \ {op}) \cup {[op EXCEPT !.stage = "ok"]}
        /\ UNCHANGED <<dbComments, nextTaskId>>
     \/ /\ op.kind = "priority"
        /\ dbTasks' = UpdatePriority(dbTasks, op.taskId, op.priority)
        /\ pending' = (pending \ {op}) \cup {[op EXCEPT !.stage = "ok"]}
        /\ UNCHANGED <<dbComments, nextTaskId>>
     \/ /\ op.kind = "delete"
        /\ dbTasks' = DeleteRow(dbTasks, op.taskId)
        /\ pending' = (pending \ {op}) \cup {[op EXCEPT !.stage = "ok"]}
        /\ UNCHANGED <<dbComments, nextTaskId>>
     \/ /\ op.kind = "create"
        /\ LET row == [id |-> nextTaskId, content |-> op.content, status |-> op.dst,
                       priority |-> op.priority]
           IN  /\ dbTasks' = Append(dbTasks, row)
               /\ pending' = (pending \ {op}) \cup {[op EXCEPT !.stage = "ok", !.dataTask = row]}
        /\ nextTaskId' = nextTaskId + 1
        /\ UNCHANGED dbComments
     \/ /\ op.kind = "comment"
        /\ LET row == [id |-> Len(dbComments) + 1, content |-> op.content,
                       timestamp |-> op.ts, task_id |-> op.taskId]
           IN  /\ dbComments' = Append(dbComments, row)
               /\ pending' = (pending \ {op}) \cup {[op EXCEPT !.stage = "ok", !.dataComment = row]}
        /\ UNCHANGED <<dbTasks, nextTaskId>>
  /\ UNCHANGED <<local, loading, loadPc, fetched, nOps, last>>

\* ------------------------------------------------------------------ properties
\* steps of the operations, told by the history variable
Began(kind)     == last.phase = "start" /\ last.op.kind = kind
Returned(kind)  == last.phase = "noop"  /\ last.op.kind = kind
Succeeded(kind) == last.phase = "ok"    /\ last.op.kind = kind
Failed(kind)    == last.phase = "fail"  /\ last.op.kind = kind

\* number of cards of a snapshot that carry the task id
Occurrences(cols, id) ==
  Cardinality({ k \in 1..Len(AllTasks(cols)) : AllTasks(cols)[k].id = id })

\* C1: after a successful Move to column dst (dst = src included) the moved task
\* is shown exactly once, in dst, with status dst.
C1_MovedTaskShownOnceInDestination ==
  Succeeded("move") =>
    /\ Occurrences(columns, last.op.taskId) = 1
    /\ \E k \in 1..Len(Find(columns, last.op.dst).tasks) :
         /\ Find(columns, last.op.dst).tasks[k].id = last.op.taskId
         /\ Find(columns, last.op.dst).tasks[k].status = last.op.dst

\* a successful Move between two different columns has put its task in
\* the destination, once (the case C1 adds the same-column drop to)
MoveAcrossColumnsKeepsTask ==
  (Succeeded("move") /\ last.op.src # last.op.dst) =>
    /\ Occurrences(columns, last.op.taskId) = 1
    /\ \E k \in 1..Len(Find(columns, last.op.dst).tasks) :
         /\ Find(columns, last.op.dst).tasks[k].id = last.op.taskId
         /\ Find(columns, last.op.dst).tasks[k].status = last.op.dst

\* C2: in every reachable state every task in a column's list has the column's
\* id as its status.
C2_StatusIsColumn ==
  \A c \in 1..Len(columns) : \A k \in 1..Len(columns[c].tasks) :
    columns[c].tasks[k].status = columns[c].id

\* a task has been moved to another column while a second task is on the board
C2_Witness ==
  /\ Succeeded("move") /\ last.op.src # last.op.dst
  /\ Len(AllTasks(columns)) = 2
  /\ Len(Find(columns, last.op.dst).tasks) = 2

\* C3: in every reachable state, overlapping operations included, no task id
\* occurs twice in the three columns.
C3_NoDuplicateIds ==
  \A k, m \in 1..Len(AllTasks(columns)) :
    AllTasks(columns)[k].id = AllTasks(columns)[m].id => k = m

\* an operation has patched the snapshot while another one's call is outstanding
C3_Witness ==
  /\ last.phase = "ok" /\ pending # {}
  /\ Len(AllTasks(columns)) = 2
  /\ \E op \in pending : op.cols # columns

\* C4: an operation whose remote call fails changes no local state, neither
\* when it issues the call nor when it handles the error, and issues no
\* second call.
C4_FailureChangesNothing ==
  [][ /\ (last' # last /\ last'.phase = "start") =>
           /\ UNCHANGED <<columns, newTask, newComment, selectedTask>>
           /\ pending' = pending \cup {last'.op}
      /\ (last' # last /\ last'.phase = "fail") =>
           /\ UNCHANGED <<columns, newTask, newComment, selectedTask>>
           /\ last'.op \in pending
           /\ pending' = pending \ {last'.op}
           /\ nOps' = nOps
           /\ UNCHANGED <<dbTasks, dbComments>> ]_vars

\* an Add Comment has failed with a draft typed and a task selected
C4_Witness ==
  /\ Failed("comment")
  /\ newComment # <<>> /\ selectedTask # NoTask
  /\ AllTasks(columns) # <<>>

\* C5 as stated: while an operation's remote call is outstanding no other
\* operation issues a remote call or applies a patch, so at most one call is
\* ever outstanding.
C5_OneOperationAtATime == Cardinality(pending) <= 1

\* C5 as amended: operations may overlap, but the snapshot changes only in the
\* step that completes an operation whose own remote call has succeeded (or that
\* completes Load), and that step completes no other operation.
C5_PatchOnlyAfterOwnCall ==
  [][ columns' # columns =>
        \/ loadPc = "comments"
        \/ \E op \in pending :
             /\ op.stage = "ok"
             /\ pending' = pending \ {op}
             /\ last'.phase = "ok" /\ last'.op = op ]_vars

\* an operation has applied its patch while another one's call is outstanding
C5_Witness ==
  /\ last.phase = "ok" /\ columns # last.op.cols
  /\ \E op \in pending : op.id < last.op.id

\* tasks other than id among the first j of a list
Kept(tasks, id, j) == Cardinality({ i \in 1..j : i <= Len(tasks) /\ tasks[i].id # id })

\* C6: after a successful Delete the task is in no column, and every other task
\* of the snapshot the Delete was called on is in the same column, in the same
\* order, with the same fields.
C6_DeleteRemovesOnlyTheTask ==
  Succeeded("delete") =>
    LET old == last.op.cols
        id  == last.op.taskId
    IN  /\ Occurrences(columns, id) = 0
        /\ Len(columns) = Len(old)
        /\ \A c \in 1..Len(old) :
             /\ columns[c].id = old[c].id
             /\ Len(columns[c].tasks) = Kept(old[c].tasks, id, Len(old[c].tasks))
             /\ \A j \in 1..Len(old[c].tasks) :
                  old[c].tasks[j].id # id =>
                    columns[c].tasks[Kept(old[c].tasks, id, j)] = old[c].tasks[j]

\* the first of two tasks of a column has been deleted
C6_Witness ==
  /\ Succeeded("delete")
  /\ \E c \in 1..Len(last.op.cols) :
       /\ Len(last.op.cols[c].tasks) = 2
       /\ last.op.cols[c].tasks[1].id = last.op.taskId
       /\ Len(columns[c].tasks) = 1

ShownDone(id) ==
  \E k \in 1..Len(Find(columns, "acabado").tasks) :
    /\ Find(columns, "acabado").tasks[k].id = id
    /\ Find(columns, "acabado").tasks[k].status = "acabado"

StoredDone(id) ==
  \E k \in 1..Len(dbTasks) : dbTasks[k].id = id /\ dbTasks[k].status = "acabado"

\* C7 as stated: when a Delete is initiated its task is in the done column of
\* the snapshot with status done, and its remote row has status done.
C7_DeleteOnlyWhenDone ==
  [][ (last' # last /\ last'.phase = "start" /\ last'.op.kind = "delete") =>
        (ShownDone(last'.op.taskId) /\ StoredDone(last'.op.taskId)) ]_vars

\* C7 as amended: when a Delete is initiated its task is in the done column of
\* the snapshot with status done (nothing is said of the remote row).
C7_DeleteOnlyWhenShownDone ==
  [][ (last' # last /\ last'.phase = "start" /\ last'.op.kind = "delete") =>
        (ShownDone(last'.op.taskId) /\ Occurrences(columns, last'.op.taskId) = 1) ]_vars

\* a Delete has been initiated while another operation's call is outstanding
C7_Witness ==
  /\ Began("delete") /\ last.op \in pending
  /\ Cardinality(pending) = 2
  /\ ShownDone(last.op.taskId)

IsBlank(text) == \A k \in 1..Len(text) : text[k] \in Whitespace

\* C8: addTask invoked on an empty or whitespace-only draft issues no remote
\* call and changes nothing.
C8_BlankDraftIsNoOp ==
  [][ (last' # last /\ last'.op.kind = "create" /\ last'.phase \in {"start", "noop"}
         /\ IsBlank(newTask)) =>
        /\ last'.phase = "noop"
        /\ UNCHANGED <<columns, newTask, newComment, selectedTask, loading,
                       pending, nOps, dbTasks, dbComments, nextTaskId>> ]_vars

\* addTask has returned early on a whitespace-only draft
C8_Witness ==
  /\ Returned("create")
  /\ newTask # <<>> /\ IsBlank(newTask)

\* text is draft without its leading and trailing whitespace
IsTrimOf(text, draft) ==
  /\ text # <<>> => (text[1] \notin Whitespace /\ text[Len(text)] \notin Whitespace)
  /\ \E i \in 0..Len(draft) :
       /\ i + Len(text) <= Len(draft)
       /\ \A k \in 1..Len(draft) :
            IF k > i /\ k <= i + Len(text) THEN draft[k] = text[k - i]
                                           ELSE draft[k] \in Whitespace

\* C9: Create on a draft that is not blank issues one insert of {content:
\* trimmed draft, status: 'inicio', priority: 'normal'}; on success the returned
\* task, with no comments, is appended to the start column of the snapshot the
\* Create was called on, nothing else of it changes, and the draft is cleared.
C9_CreateAppendsToStart ==
  [][ /\ (last' # last /\ last'.phase = "start" /\ last'.op.kind = "create") =>
           /\ ~IsBlank(newTask)
           /\ IsTrimOf(last'.op.content, newTask)
           /\ last'.op.dst = "inicio" /\ last'.op.priority = "normal"
           /\ last'.op \notin pending
           /\ pending' = pending \cup {last'.op}
           /\ UNCHANGED <<columns, newTask>>
      /\ (last' # last /\ last'.phase = "ok" /\ last'.op.kind = "create") =>
           LET old == last'.op.cols
               row == last'.op.dataTask
           IN  /\ row.content = last'.op.content
               /\ row.status = "inicio" /\ row.priority = "normal"
               /\ \E k \in 1..Len(dbTasks) : dbTasks[k] = row
               /\ Occurrences(old, row.id) = 0
               /\ Len(columns') = Len(old)
               /\ \A c \in 1..Len(old) :
                    /\ columns'[c].id = old[c].id
                    /\ IF old[c].id = "inicio"
                         THEN /\ Len(columns'[c].tasks) = Len(old[c].tasks) + 1
                              /\ SubSeq(columns'[c].tasks, 1, Len(old[c].tasks)) = old[c].tasks
                              /\ columns'[c].tasks[Len(old[c].tasks) + 1] =
                                   [id |-> row.id, content |-> row.content, status |-> "inicio",
                                    priority |-> "normal", comments |-> <<>>]
                         ELSE columns'[c].tasks = old[c].tasks
               /\ newTask' = <<>> ]_vars

\* a task has been created behind an existing task of the start column, from a
\* draft with whitespace around its text
C9_Witness ==
  /\ Succeeded("create")
  /\ Len(Find(last.op.cols, "inicio").tasks) = 1
  /\ Len(Find(columns, "inicio").tasks) = 2
  /\ Find(columns, "inicio").tasks[2].content = <<"a">>
  /\ newTask = <<>>

PriorityIn(cols, id) ==
  { AllTasks(cols)[k].priority : k \in { m \in 1..Len(AllTasks(cols)) : AllTasks(cols)[m].id = id } }

\* C10: a successful Re-prioritize to the priority the task already had when
\* the call was made leaves the snapshot equal to the one at the call.
C10_SamePriorityChangesNothing ==
  (Succeeded("priority") /\ PriorityIn(last.op.cols, last.op.taskId) = {last.op.priority})
    => columns = last.op.cols

\* a task that carries a comment has been re-prioritized to its own priority
C10_Witness ==
  /\ Succeeded("priority")
  /\ PriorityIn(last.op.cols, last.op.taskId) = {last.op.priority}
  /\ \E k \in 1..Len(AllTasks(columns)) :
       /\ AllTasks(columns)[k].id = last.op.taskId
       /\ AllTasks(columns)[k].comments # <<>>

\* ------------------------------------------------------------------ Load on any store
\* tables of at most MaxFetched rows: the task ids are 1..n in any order, every
\* row has one of the three statuses, a comment refers to any id of 1..MaxFetched
IdOrders(n) == { f \in [1..n -> 1..n] : \A i, j \in 1..n : f[i] = f[j] => i = j }

TaskTables ==
  UNION { { [k \in 1..n |-> [id |-> ids[k], content |-> <<"a">>,
                             status |-> st[k], priority |-> pr[k]]] :
            ids \in IdOrders(n), st \in [1..n -> Status], pr \in [1..n -> Priority] } :
          n \in 0..MaxFetched }

CommentTables ==
  UNION { { [k \in 1..n |-> [id |-> k, content |-> <<"c">>, timestamp |-> 0, task_id |-> owner[k]]] :
            owner \in [1..n -> 1..MaxFetched] } :
          n \in 0..MaxFetched }

InitLoad ==
  /\ columns = initialColumns
  /\ newTask = <<>>
  /\ newComment = <<>>
  /\ selectedTask = NoTask
  /\ loading = TRUE
  /\ loadPc = "tasks"
  /\ fetched = <<>>
  /\ pending = {}
  /\ nOps = 0
  /\ dbTasks \in TaskTables
  /\ dbComments \in CommentTables
  /\ nextTaskId = Len(dbTasks) + 1
  /\ last = [phase |-> "init", op |-> NoOp, serial |-> FALSE]

NextLoad ==
  \/ FetchTasksOk
  \/ FetchTasksErr
  \/ FetchCommentsOk
  \/ FetchCommentsErr

SpecLoad == InitLoad /\ [][NextLoad]_vars

\* rows with the status among the first j rows; comments of the task among the
\* first j comments
RowRank(rows, status, j) == Cardinality({ i \in 1..j : rows[i].status = status })
CommentRank(comments, id, j) == Cardinality({ i \in 1..j : comments[i].task_id = id })

\* C11: the step that completes a successful Load leaves the three columns, each
\* holding exactly the fetched tasks whose status is the column's id, in fetch
\* order, each task with exactly the fetched comments whose task_id is its id, in
\* fetch order; the ids on the board are the ids fetched, whatever was shown before.
C11_LoadPartitionsByStatus ==
  [][ (last' # last /\ last'.phase = "loadOk") =>
        /\ Len(columns') = 3
        /\ columns'[1].id = "inicio" /\ columns'[2].id = "enmarcha" /\ columns'[3].id = "acabado"
        /\ Ids(columns') = { fetched[j].id : j \in 1..Len(fetched) }
        /\ \A c \in 1..3 :
             /\ Len(columns'[c].tasks) = RowRank(fetched, columns'[c].id, Len(fetched))
             /\ \A j \in 1..Len(fetched) :
                  fetched[j].status = columns'[c].id =>
                    LET task == columns'[c].tasks[RowRank(fetched, columns'[c].id, j)]
                    IN  /\ task.id = fetched[j].id
                        /\ task.content = fetched[j].content
                        /\ task.status = fetched[j].status
                        /\ task.priority = fetched[j].priority
                        /\ Len(task.comments) = CommentRank(dbComments, task.id, Len(dbComments))
                        /\ \A m \in 1..Len(dbComments) :
                             dbComments[m].task_id = task.id =>
                               task.comments[CommentRank(dbComments, task.id, m)] = dbComments[m] ]_vars

\* Load has put two tasks, fetched with the higher id first, in one column;
\* the second has a comment and the first has none
C11_Witness ==
  /\ last.phase = "loadOk"
  /\ Len(dbTasks) = 2 /\ dbTasks[1].id = 2
  /\ \E c \in 1..Len(columns) :
       /\ Len(columns[c].tasks) = 2
       /\ columns[c].tasks[1].id = 2
       /\ columns[c].tasks[1].comments = <<>>
       /\ columns[c].tasks[2].comments # <<>>

\* each select of fetchTasks is answered, with rows or with an error, and the
\* function then runs to its end
SpecLoadFair == SpecLoad /\ WF_vars(NextLoad)

\* C12: Load finishes, and when it has finished loading is false, whether both
\* selects succeeded, the first failed, or the second failed after the first
\* succeeded; after either failure the columns are the three empty columns.
C12_LoadEndsWithLoadingCleared ==
  /\ <>(loadPc = "done")
  /\ [](loadPc = "done" => loading = FALSE)
  /\ [](last.phase = "loadFail" => columns = initialColumns)

\* the select of the comments has failed after the select of the tasks had
\* returned rows
C12_Witness ==
  /\ last.phase = "loadFail" /\ last.op.kind = "comments"
  /\ loadPc = "done" /\ loading = FALSE
  /\ Len(dbTasks) = 2
  /\ columns = initialColumns

\* C13: addComment issues its insert only when a task is selected and the
\* draft is not blank, and otherwise changes nothing; on success the returned
\* comment is appended to the comments of the task with the selected task's id in
\* the snapshot addComment was called on, nothing else of it changes, the draft
\* is cleared and no task is selected any more.
C13_AddCommentAppendsToSelectedTask ==
  [][ /\ (last' # last /\ last'.op.kind = "comment" /\ last'.phase \in {"start", "noop"}) =>
           IF selectedTask # NoTask /\ ~IsBlank(newComment)
             THEN /\ last'.phase = "start"
                  /\ IsTrimOf(last'.op.content, newComment)
                  /\ last'.op.taskId = selectedTask.id
                  /\ last'.op \notin pending
                  /\ pending' = pending \cup {last'.op}
                  /\ UNCHANGED <<columns, newTask, newComment, selectedTask, dbTasks, dbComments>>
             ELSE /\ last'.phase = "noop"
                  /\ UNCHANGED <<columns, newTask, newComment, selectedTask, loading,
                                 pending, nOps, dbTasks, dbComments, nextTaskId>>
      /\ (last' # last /\ last'.phase = "ok" /\ last'.op.kind = "comment") =>
           LET old  == last'.op.cols
               data == last'.op.dataComment
           IN  /\ data.content = last'.op.content
               /\ data.task_id = last'.op.taskId
               /\ \E k \in 1..Len(dbComments) : dbComments[k] = data
               /\ Len(columns') = Len(old)
               /\ \A c \in 1..Len(old) :
                    /\ columns'[c].id = old[c].id
                    /\ Len(columns'[c].tasks) = Len(old[c].tasks)
                    /\ \A k \in 1..Len(old[c].tasks) :
                         IF old[c].tasks[k].id = last'.op.taskId
                           THEN columns'[c].tasks[k] =
                                  [id |-> old[c].tasks[k].id,
                                   content |-> old[c].tasks[k].content,
                                   status |-> old[c].tasks[k].status,
                                   priority |-> old[c].tasks[k].priority,
                                   comments |-> old[c].tasks[k].comments \o <<data>>]
                           ELSE columns'[c].tasks[k] = old[c].tasks[k]
               /\ newComment' = <<>>
               /\ selectedTask' = NoTask ]_vars

\* a second comment has been added to a task while another task is on the board
C13_Witness ==
  /\ Succeeded("comment")
  /\ Len(AllTasks(columns)) = 2
  /\ \E k \in 1..Len(AllTasks(columns)) :
       /\ AllTasks(columns)[k].id = last.op.taskId
       /\ Len(AllTasks(columns)[k].comments) = 2
       /\ AllTasks(columns)[k].comments[2] = last.op.dataComment
  /\ newComment = <<>> /\ selectedTask = NoTask

IsPrefix(a, b) == Len(a) <= Len(b) /\ SubSeq(b, 1, Len(a)) = a

\* the comments of every task of snapshot a that is also in snapshot b are a
\* prefix of its comments in b
CommentsKept(a, b) ==
  \A k \in 1..Len(AllTasks(a)) : \A m \in 1..Len(AllTasks(b)) :
    AllTasks(a)[k].id = AllTasks(b)[m].id =>
      IsPrefix(AllTasks(a)[k].comments, AllTasks(b)[m].comments)

\* C14 as stated: in every step, whatever the interleaving, the comments a task
\* had before the step are a prefix of the comments it has after it.
C14_CommentsOnlyGrow == [][ CommentsKept(columns, columns') ]_vars

\* C14 as amended: the step that completes an operation keeps the comments of
\* every task of the snapshot the operation was called on as a prefix of that
\* task's comments after the step; so the comments shown only grow as long as the
\* snapshot has not been replaced between an operation's call and its completion.
C14_CommentsOfCapturedSnapshotKept ==
  [][ /\ (last' # last /\ last'.phase = "ok") => CommentsKept(last'.op.cols, columns')
      /\ (last' # last /\ last'.phase = "ok" /\ last'.op.cols = columns) =>
           CommentsKept(columns, columns')
      /\ (last' = last \/ last'.phase # "ok") =>
           (columns' = columns \/ Ids(columns) = {}) ]_vars

\* a task that was given a second comment has then been moved to another column
\* with both comments
C14_Witness ==
  /\ Succeeded("move") /\ last.op.src # last.op.dst
  /\ last.op.id = 2
  /\ \E k \in 1..Len(AllTasks(columns)) :
       /\ AllTasks(columns)[k].id = last.op.taskId
       /\ Len(AllTasks(columns)[k].comments) = 2

\* newColumns of the handler of op, computed from the columns op captured
PatchOf(op) ==
  CASE op.kind = "move"     -> MoveColumns(op.cols, op)
    [] op.kind = "create"   -> AddTaskColumns(op.cols, op.dataTask)
    [] op.kind = "priority" -> PriorityColumns(op.cols, op.taskId, op.priority)
    [] op.kind = "delete"   -> DeleteColumns(op.cols, op.taskId)
    [] op.kind = "comment"  -> CommentColumns(op.cols, op.task.id, op.dataComment)
    [] OTHER                -> op.cols

\* C15: when an operation completes with success after another operation has
\* replaced the snapshot since it was initiated, the snapshot it leaves is the
\* one it computes from the columns it captured at its initiation: what the
\* other operation patched in between is not carried over.
C15_LastReplaceWins ==
  [][ (last' # last /\ last'.phase = "ok" /\ columns # last'.op.cols) =>
        columns' = PatchOf(last'.op) ]_vars

\* a Create and a Re-prioritize were outstanding together; the Create completed
\* first, the Re-prioritize last, and the created task is not on the board
C15_Witness ==
  /\ Succeeded("priority")
  /\ last.op.id = 1 /\ nOps = 2 /\ pending = {}
  /\ \E k \in 1..Len(dbTasks) :
       /\ dbTasks[k].id \notin Ids(last.op.cols)
       /\ dbTasks[k].id \notin Ids(columns)
  /\ columns = PriorityColumns(last.op.cols, last.op.taskId, last.op.priority)

\* the tasks on the board are the rows of the remote table tasks, with the
\* status and the priority of their rows
AgreesWithStore ==
  /\ Ids(columns) = { dbTasks[k].id : k \in 1..Len(dbTasks) }
  /\ \A m \in 1..Len(AllTasks(columns)) : \E k \in 1..Len(dbTasks) :
       /\ dbTasks[k].id = AllTasks(columns)[m].id
       /\ dbTasks[k].status = AllTasks(columns)[m].status
       /\ dbTasks[k].priority = AllTasks(columns)[m].priority

\* C16: when Load has succeeded and no operation was ever initiated while
\* another one's call was outstanding, then whenever no call is outstanding the
\* tasks on the board are the rows of the remote table, with their status and
\* priority.
C16_SerialSnapshotAgreesWithStore ==
  (last.serial /\ pending = {}) => AgreesWithStore

\* the part of C16 the same-column drop does not break: without overlap no task
\* on the board differs from its row, and every task on the board has a row
SerialBoardWithinStore ==
  (last.serial /\ pending = {}) =>
    \A m \in 1..Len(AllTasks(columns)) : \E k \in 1..Len(dbTasks) :
      /\ dbTasks[k].id = AllTasks(columns)[m].id
      /\ dbTasks[k].status = AllTasks(columns)[m].status
      /\ dbTasks[k].priority = AllTasks(columns)[m].priority

\* C17: a successful Move between two different columns takes exactly the
\* element at the source index out of the source column and puts the task at
\* exactly the destination index of the destination column, with the
\* destination's id as status and its id, content, priority and comments as
\* they were; the other tasks keep their column and order and the third column
\* is as it was (all with respect to the snapshot the Move was called on).  A
\* drop without destination issues no call and changes nothing.
C17_MoveAcrossColumnsFrame ==
  [][ /\ (last' # last /\ last'.phase = "ok" /\ last'.op.kind = "move"
            /\ last'.op.src # last'.op.dst) =>
           LET old   == last'.op.cols
               src   == last'.op.src
               dst   == last'.op.dst
               i     == last'.op.srcIdx
               j     == last'.op.dstIdx
               taken == Find(old, src).tasks[i + 1]
           IN  /\ i < Len(Find(old, src).tasks) /\ j <= Len(Find(old, dst).tasks)
               /\ taken.id = last'.op.taskId
               /\ Len(columns') = Len(old)
               /\ \A c \in 1..Len(old) :
                    /\ columns'[c].id = old[c].id
                    /\ IF old[c].id = src
                         THEN /\ Len(columns'[c].tasks) = Len(old[c].tasks) - 1
                              /\ \A k \in 1..Len(columns'[c].tasks) :
                                   columns'[c].tasks[k] = old[c].tasks[IF k <= i THEN k ELSE k + 1]
                       ELSE IF old[c].id = dst
                         THEN /\ Len(columns'[c].tasks) = Len(old[c].tasks) + 1
                              /\ columns'[c].tasks[j + 1] =
                                   [id |-> taken.id, content |-> taken.content, status |-> dst,
                                    priority |-> taken.priority, comments |-> taken.comments]
                              /\ \A k \in 1..Len(old[c].tasks) :
                                   columns'[c].tasks[IF k <= j THEN k ELSE k + 1] = old[c].tasks[k]
                       ELSE columns'[c].tasks = old[c].tasks
      /\ (last' # last /\ last'.phase = "start" /\ last'.op.kind = "move") =>
           /\ Found(columns, last'.op.src) /\ Found(columns, last'.op.dst)
           /\ UNCHANGED <<columns, dbTasks>>
      /\ (last' # last /\ last'.phase = "noop" /\ last'.op.kind = "move") =>
           UNCHANGED <<columns, newTask, newComment, selectedTask, loading,
                       pending, nOps, dbTasks, dbComments, nextTaskId>> ]_vars

\* a task has been dropped at index 0 of another column, in front of the task
\* that column held, and keeps its comments and priority
C17_Witness ==
  /\ Succeeded("move") /\ last.op.src # last.op.dst
  /\ last.op.dstIdx = 0
  /\ Len(Find(last.op.cols, last.op.dst).tasks) = 1
  /\ Len(Find(columns, last.op.dst).tasks) = 2
  /\ Find(columns, last.op.dst).tasks[1].id = last.op.taskId
  /\ Find(columns, last.op.dst).tasks[1].status = last.op.dst
  /\ Find(columns, last.op.src).tasks = <<>>

\* a drop outside every column has been ignored, with a task on the board
C17_NoDestinationWitness ==
  /\ Returned("move")
  /\ AllTasks(columns) # <<>>

\* C18: after a successful Re-prioritize(taskId, p) every task of the snapshot
\* it was called on is in the same column at the same position with the same
\* id, status, content and comments; the task with id taskId has priority p and
\* every other task the priority it had.  For an id that no task of a snapshot
\* has, the columns the handler computes are the snapshot itself.
C18_ReprioritizeFrame ==
  /\ Succeeded("priority") =>
       LET old == last.op.cols
       IN  /\ Len(columns) = Len(old)
           /\ \A c \in 1..Len(old) :
                /\ columns[c].id = old[c].id
                /\ Len(columns[c].tasks) = Len(old[c].tasks)
                /\ \A k \in 1..Len(old[c].tasks) :
                     /\ columns[c].tasks[k].id = old[c].tasks[k].id
                     /\ columns[c].tasks[k].status = old[c].tasks[k].status
                     /\ columns[c].tasks[k].content = old[c].tasks[k].content
                     /\ columns[c].tasks[k].comments = old[c].tasks[k].comments
                     /\ columns[c].tasks[k].priority =
                          (IF old[c].tasks[k].id = last.op.taskId THEN last.op.priority
                                                                ELSE old[c].tasks[k].priority)
  /\ \A id \in 0..(MaxTasks + 1) : \A p \in Priority :
       id \notin Ids(columns) => PriorityColumns(columns, id, p) = columns

\* one of two tasks on the board, the one with a comment, has been given
\* another priority than it had
C18_Witness ==
  /\ Succeeded("priority")
  /\ Len(AllTasks(columns)) = 2
  /\ PriorityIn(last.op.cols, last.op.taskId) # {last.op.priority}
  /\ PriorityIn(columns, last.op.taskId) = {last.op.priority}
  /\ \E k \in 1..Len(AllTasks(columns)) :
       /\ AllTasks(columns)[k].id = last.op.taskId
       /\ AllTasks(columns)[k].comments # <<>>

\* C19: while loading is true no handler has been invoked, with or without a
\* remote call; fetchTasks completes once, before any operation has been
\* initiated, and is not run again, so its setColumns never follows the
\* setColumns of an operation.
C19_LoadBeforeAnyOperation ==
  /\ [](loading => (pending = {} /\ nOps = 0 /\ last.phase \in {"init", "loadTasks"}))
  /\ [][ /\ (last' # last /\ last'.phase \in {"loadTasks", "loadOk", "loadFail"}) =>
              (loading /\ nOps = 0 /\ pending = {} /\ last.phase \in {"init", "loadTasks"})
         /\ loadPc = "done" => (loadPc' = "done" /\ loading' = FALSE) ]_vars

\* Load has failed on a store that holds rows, and a Create has then been
\* initiated on the empty board
C19_Witness ==
  /\ Began("create")
  /\ loading = FALSE /\ loadPc = "done"
  /\ nOps = 1 /\ ~last.serial
  /\ dbTasks # <<>> /\ columns = initialColumns

Next ==
  \/ FetchTasksOk
  \/ FetchTasksErr
  \/ FetchCommentsOk
  \/ FetchCommentsErr
  \/ \E text \in Drafts : SetNewTask(text)
  \/ \E text \in Drafts : SetNewComment(text)
  \/ \E card \in Cards : SetSelectedTask(card)
  \/ \E source \in Sources : \E destination \in Destinations(source) : OnDragEndReturn(source, destination)
  \/ \E source \in Sources : \E destination \in Destinations(source) : OnDragEndStart(source, destination)
  \/ \E op \in pending : OnDragEndOk(op)
  \/ AddTaskReturn
  \/ AddTaskStart
  \/ \E op \in pending : AddTaskOk(op)
  \/ \E card \in Cards : \E newPriority \in Priority : ChangeTaskPriorityStart(card, newPriority)
  \/ \E op \in pending : ChangeTaskPriorityOk(op)
  \/ \E card \in Cards : DeleteTaskStart(card)
  \/ \E op \in pending : DeleteTaskOk(op)
  \/ AddCommentReturn
  \/ AddCommentStart
  \/ \E op \in pending : AddCommentOk(op)
  \/ \E op \in pending : Catch(op)
  \/ \E op \in pending : RemoteOk(op)

Spec == Init /\ [][Next]_vars
====
